---- MODULE Spec2Model ----
(***************************************************************************)
(* Dexter: the execution/streaming bridge (server.py), the LLM invocation  *)
(* layer (model.py) and the event encoder (utils/event_logger.py).         *)
(*                                                                         *)
(* Spec      the server: POST /api/run, the worker thread, the hand-off to *)
(*           the event loop, AgentSession.stream and GET .../events.       *)
(* SpecWorker  Spec with the worker threads scheduled fairly.               *)
(* SpecFair  Spec with the event loop, the workers and the streams         *)
(*           scheduled fairly.                                             *)
(* SpecLLM   one call of call_llm: the binding its inputs and the          *)
(*           configuration select, then the retry loop.                    *)
(* SpecLog   one call of EventLogger.log_tool_run, or one progress scope.  *)
(* SpecReq   the executor's limits: the request fields and the arguments   *)
(*           the worker constructs the Agent with.                         *)
(***************************************************************************)
EXTENDS Integers, Sequences, FiniteSets, TLC

\* ------------------------------------------------------------------ bounds
MaxRuns == 2        \* run submissions explored
MaxStreams == 2     \* GET .../events requests that open a stream
MaxLogs == 1        \* non-terminal events one executor emits

RunIds == 1..MaxRuns
StreamIds == 1..MaxStreams
LogMsgs == <<"m1", "m2", "m3">>
Answers == {"ans"}
CtorFailure == "ctor failed"
RunFailure == "run failed"

VARIABLES
    nextRun,    \* number of run ids issued so far (uuid4 draws a fresh id)
    sessions,   \* DexterServer.sessions: the set of registered run ids
    queue,      \* AgentSession.queue of each run's session
    finished,   \* AgentSession.finished of each run's session
    http,       \* POST /api/run of each run: "none", "returned", "sent"
    worker,     \* the worker of each run: [pc, logs, exc, answer]
    ready,      \* queue.put coroutines handed to the loop, not yet run
    streams,    \* the streams opened: [run, pc, last, out]
    emitted,    \* history: payloads each worker passed to emit
    delivered,  \* history: payloads yielded for each run, in yield order
    reaped,     \* history: run ids popped from the registry
    resp,       \* the last answer of GET .../events: [run, status]
    llm,        \* one call of call_llm: inputs, binding, retry loop
    enc,        \* one call of the event encoder: inputs, events emitted
    req         \* one RunRequest and the Agent arguments built from it

vars == <<nextRun, sessions, queue, finished, http, worker, ready, streams,
          emitted, delivered, reaped, resp, llm, enc, req>>

\* the state of the invocation layer, the event encoder and the request
\* fields, which the server's steps leave alone
other == <<llm, enc, req>>

\* ---------------------------------------------------------------- payloads
LogPayload(k) == [type |-> "log", message |-> LogMsgs[k]]
DonePayload(answer) == [type |-> "done", answer |-> answer]
ErrorPayload(text) == [type |-> "error", message |-> text]

\* mutant: only the done event ends a stream
IsDone(payload) == payload.type = "done"

\* payload.get("type") in {"done", "error"}
IsTerminal(payload) == payload.type \in {"done", "error"}

\* json.dumps(payload, ensure_ascii=False): the keys in insertion order
Dumps(payload) ==
    IF payload.type = "done"
    THEN <<<<"type", payload.type>>, <<"answer", payload.answer>>>>
    ELSE <<<<"type", payload.type>>, <<"message", payload.message>>>>

\* the frame stream() yields for a payload
Frame(payload) == [data |-> Dumps(payload)]

\* ------------------------------------------------------------------- state
NoPayload == [type |-> "none"]
NoExc == "none"
NoAnswer == "none"

InitServer ==
    /\ nextRun = 0
    /\ sessions = {}
    /\ queue = [r \in RunIds |-> <<>>]
    /\ finished = [r \in RunIds |-> FALSE]
    /\ http = [r \in RunIds |-> "none"]
    /\ worker = [r \in RunIds |->
                    [pc |-> "none", logs |-> 0, exc |-> NoExc, answer |-> NoAnswer]]
    /\ ready = <<>>
    /\ streams = <<>>
    /\ emitted = [r \in RunIds |-> <<>>]
    /\ delivered = [r \in RunIds |-> <<>>]
    /\ reaped = {}
    /\ resp = [run |-> 0, status |-> 0]

LLMIdle == [pc |-> "idle"]
EncIdle == [pc |-> "idle"]
ReqIdle == [pc |-> "idle"]

Init ==
    /\ InitServer
    /\ llm = LLMIdle
    /\ enc = EncIdle
    /\ req = ReqIdle

\* ------------------------------------------------------ POST /api/run
\* mutant: the id issued last is issued again
RecycledRunId == IF nextRun = 0 THEN nextRun + 1 ELSE nextRun

\* run_id = str(uuid4()): an id no earlier run has
NewRunId == nextRun + 1

\* run_agent: allocate, create the session, register, add the background
\* task, return the response object. No await: one step of the loop.
PostRun ==
    /\ nextRun < MaxRuns
    /\ LET r == NewRunId IN
        /\ nextRun' = nextRun + 1
        /\ sessions' = sessions \cup {r}
        /\ queue' = [queue EXCEPT ![r] = <<>>]
        /\ finished' = [finished EXCEPT ![r] = FALSE]
        /\ http' = [http EXCEPT ![r] = "returned"]
        /\ worker' = [worker EXCEPT ![r] =
                        [pc |-> "queued", logs |-> 0, exc |-> NoExc,
                         answer |-> NoAnswer]]
    /\ UNCHANGED <<other, ready, streams, emitted, delivered, reaped, resp>>

\* the RunResponse goes out on the wire
Respond(r) ==
    /\ http[r] = "returned"
    /\ http' = [http EXCEPT ![r] = "sent"]
    /\ UNCHANGED <<other, nextRun, sessions, queue, finished, worker, ready, streams,
                   emitted, delivered, reaped, resp>>

\* mutant: the worker is started from the handler itself
DispatchInHandler(r) == http[r] # "none"

\* background_tasks.add_task(...): the task runs once the response is sent
DispatchGuard(r) == http[r] = "sent"

\* loop.run_in_executor(None, worker): the worker starts on its thread
Dispatch(r) ==
    /\ worker[r].pc = "queued"
    /\ DispatchGuard(r)
    /\ worker' = [worker EXCEPT ![r].pc = "construct"]
    /\ UNCHANGED <<other, nextRun, sessions, queue, finished, http, ready, streams,
                   emitted, delivered, reaped, resp>>

\* ------------------------------------------------------------- the hand-off
\* mutant: the newest payload overtakes the ones waiting
EnqueueFront(q, x) == <<x>> \o q

\* where a payload goes in a FIFO: asyncio.Queue.put, and the loop's queue
\* of scheduled coroutines
Enqueue(q, x) == Append(q, x)

\* AgentSession.emit, called on the worker thread: the put is handed to
\* the loop, nothing of the session is touched here
Emit(r, payload) ==
    /\ ready' = Enqueue(ready, [run |-> r, payload |-> payload])
    /\ emitted' = [emitted EXCEPT ![r] = Append(@, payload)]

\* the loop runs the oldest handed-off queue.put(payload)
LoopPut ==
    /\ ready # <<>>
    /\ LET h == Head(ready) IN
        queue' = [queue EXCEPT ![h.run] = Enqueue(@, h.payload)]
    /\ ready' = Tail(ready)
    /\ UNCHANGED <<other, nextRun, sessions, finished, http, worker, streams,
                   emitted, delivered, reaped, resp>>

\* ---------------------------------------------------------------- worker
\* mutant: the failure is logged and no event is emitted
WorkerFailSilent(r, text) ==
    /\ worker' = [worker EXCEPT ![r].pc = "finally", ![r].exc = text]
    /\ UNCHANGED <<ready, emitted>>

\* the executor raises: the except branch emits the error event
WorkerFail(r, text) ==
    /\ Emit(r, ErrorPayload(text))
    /\ worker' = [worker EXCEPT ![r].pc = "finally", ![r].exc = text]

\* Agent(max_steps=..., max_steps_per_task=..., logger=EventLogger(emit))
WorkerConstruct(r) ==
    /\ worker[r].pc = "construct"
    /\ \/ /\ worker' = [worker EXCEPT ![r].pc = "run"]
          /\ UNCHANGED <<ready, emitted>>
       \/ WorkerFail(r, CtorFailure)
    /\ UNCHANGED <<other, nextRun, sessions, queue, finished, http, streams,
                   delivered, reaped, resp>>

\* agent.run(query) reports progress through the logger
WorkerLog(r) ==
    /\ worker[r].pc = "run"
    /\ worker[r].logs < MaxLogs
    /\ Emit(r, LogPayload(worker[r].logs + 1))
    /\ worker' = [worker EXCEPT ![r].logs = @ + 1]
    /\ UNCHANGED <<other, nextRun, sessions, queue, finished, http, streams,
                   delivered, reaped, resp>>

\* answer = agent.run(query); emit({"type": "done", "answer": answer})
WorkerReturn(r) ==
    /\ worker[r].pc = "run"
    /\ \E a \in Answers :
        /\ Emit(r, DonePayload(a))
        /\ worker' = [worker EXCEPT ![r].pc = "finally", ![r].answer = a]
    /\ UNCHANGED <<other, nextRun, sessions, queue, finished, http, streams,
                   delivered, reaped, resp>>

\* agent.run(query) raises
WorkerRaise(r) ==
    /\ worker[r].pc = "run"
    /\ WorkerFail(r, RunFailure)
    /\ UNCHANGED <<other, nextRun, sessions, queue, finished, http, streams,
                   delivered, reaped, resp>>

\* mutant: the worker, when it is done, removes the run id itself
WorkerFinishPops(r) ==
    /\ worker[r].pc = "finally"
    /\ finished' = [finished EXCEPT ![r] = TRUE]
    /\ worker' = [worker EXCEPT ![r].pc = "exited"]
    /\ sessions' = sessions \ {r}
    /\ reaped' = IF r \in sessions THEN reaped \cup {r} ELSE reaped
    /\ UNCHANGED <<other, nextRun, queue, http, ready, streams,
                   emitted, delivered>>
    /\ UNCHANGED resp

\* mutant: the worker leaves without setting the flag
WorkerFinishUnset(r) ==
    /\ worker[r].pc = "finally"
    /\ worker' = [worker EXCEPT ![r].pc = "exited"]
    /\ UNCHANGED <<other, nextRun, sessions, queue, finished, http, ready,
                   streams, emitted, delivered, reaped, resp>>

\* finally: session.finished.set(), on the worker thread
WorkerFinish(r) ==
    /\ worker[r].pc = "finally"
    /\ finished' = [finished EXCEPT ![r] = TRUE]
    /\ worker' = [worker EXCEPT ![r].pc = "exited"]
    /\ UNCHANGED <<other, nextRun, sessions, queue, http, ready, streams,
                   emitted, delivered, reaped, resp>>

\* ------------------------------------------- GET /api/run/{run_id}/events
\* mutant: the run id is left in the registry
PopNothing(registry, r) == registry

\* self.sessions.pop(run_id, None)
Pop(registry, r) == registry \ {r}

\* session is None: raise HTTPException(404)
Get404(r) ==
    /\ r \notin sessions
    /\ resp' = [run |-> r, status |-> 404]
    /\ UNCHANGED <<other, nextRun, sessions, queue, finished, http, worker, ready,
                   streams, emitted, delivered, reaped>>

\* return EventSourceResponse(event_generator()): a stream is opened
StreamOpen(r) ==
    /\ r \in sessions
    /\ Len(streams) < MaxStreams
    /\ streams' = Append(streams,
                    [run |-> r, pc |-> "get", last |-> NoPayload, out |-> <<>>])
    /\ resp' = [run |-> r, status |-> 200]
    /\ UNCHANGED <<other, nextRun, sessions, queue, finished, http, worker, ready,
                   emitted, delivered, reaped>>

\* mutant: the payload read stays in the queue
StreamGetKeeps(s) ==
    /\ s \in DOMAIN streams
    /\ streams[s].pc = "get"
    /\ LET r == streams[s].run IN
        /\ queue[r] # <<>>
        /\ streams' = [streams EXCEPT ![s].pc = "yield",
                                      ![s].last = Head(queue[r]),
                                      ![s].out = Append(@, Frame(Head(queue[r])))]
        /\ delivered' = [delivered EXCEPT ![r] = Append(@, Head(queue[r]))]
    /\ UNCHANGED <<other, nextRun, sessions, queue, finished, http, worker,
                   ready, emitted, reaped, resp>>

\* payload = await self.queue.get(); yield {"data": json.dumps(payload)}
StreamGet(s) ==
    /\ s \in DOMAIN streams
    /\ streams[s].pc = "get"
    /\ LET r == streams[s].run IN
        /\ queue[r] # <<>>
        /\ queue' = [queue EXCEPT ![r] = Tail(@)]
        /\ streams' = [streams EXCEPT ![s].pc = "yield",
                                      ![s].last = Head(queue[r]),
                                      ![s].out = Append(@, Frame(Head(queue[r])))]
        /\ delivered' = [delivered EXCEPT ![r] = Append(@, Head(queue[r]))]
    /\ UNCHANGED <<other, nextRun, sessions, finished, http, worker, ready,
                   emitted, reaped, resp>>

\* the consumer asks for the next frame: after a terminal payload stream()
\* breaks, sets finished, and event_generator pops the run id; otherwise
\* stream() loops to the next queue.get()
StreamResume(s) ==
    /\ s \in DOMAIN streams
    /\ streams[s].pc = "yield"
    /\ LET r == streams[s].run IN
        IF IsTerminal(streams[s].last)
        THEN /\ streams' = [streams EXCEPT ![s].pc = "done"]
             /\ finished' = [finished EXCEPT ![r] = TRUE]
             /\ sessions' = Pop(sessions, r)
             /\ reaped' = IF r \in sessions THEN reaped \cup {r} ELSE reaped
        ELSE /\ streams' = [streams EXCEPT ![s].pc = "get"]
             /\ UNCHANGED <<finished, sessions, reaped>>
    /\ UNCHANGED <<other, nextRun, queue, http, worker, ready, emitted, delivered, resp>>

\* mutant: the disconnect also stops the worker of the run
StreamCancelKillsWorker(s) ==
    /\ s \in DOMAIN streams
    /\ streams[s].pc \in {"get", "yield"}
    /\ streams' = [streams EXCEPT ![s].pc = "cancelled"]
    /\ finished' = [finished EXCEPT ![streams[s].run] = TRUE]
    /\ worker' = [worker EXCEPT ![streams[s].run].pc = "exited"]
    /\ UNCHANGED <<other, nextRun, sessions, queue, http, ready,
                   emitted, delivered, reaped, resp>>

\* the client disconnects. Waiting in queue.get(): CancelledError is raised
\* there, the finally of stream() sets finished. Suspended at the yield: the
\* generators are dropped and finalized later. Either way the line after
\* the async for of event_generator, the pop, is not run.
StreamCancel(s) ==
    /\ s \in DOMAIN streams
    /\ streams[s].pc \in {"get", "yield"}
    /\ IF streams[s].pc = "get"
       THEN /\ streams' = [streams EXCEPT ![s].pc = "cancelled"]
            /\ finished' = [finished EXCEPT ![streams[s].run] = TRUE]
       ELSE /\ streams' = [streams EXCEPT ![s].pc = "abandoned"]
            /\ UNCHANGED finished
    /\ UNCHANGED <<other, nextRun, sessions, queue, http, worker, ready,
                   emitted, delivered, reaped, resp>>

\* the dropped generator is closed by the loop's async-generator finalizer:
\* GeneratorExit at the yield, the finally of stream() sets finished
StreamFinalize(s) ==
    /\ s \in DOMAIN streams
    /\ streams[s].pc = "abandoned"
    /\ streams' = [streams EXCEPT ![s].pc = "cancelled"]
    /\ finished' = [finished EXCEPT ![streams[s].run] = TRUE]
    /\ UNCHANGED <<other, nextRun, sessions, queue, http, worker, ready,
                   emitted, delivered, reaped, resp>>

Next ==
    \/ PostRun
    \/ \E r \in RunIds : Respond(r)
    \/ \E r \in RunIds : Dispatch(r)
    \/ LoopPut
    \/ \E r \in RunIds : WorkerConstruct(r)
    \/ \E r \in RunIds : WorkerLog(r)
    \/ \E r \in RunIds : WorkerReturn(r)
    \/ \E r \in RunIds : WorkerRaise(r)
    \/ \E r \in RunIds : WorkerFinish(r)
    \/ \E r \in RunIds : Get404(r)
    \/ \E r \in RunIds : StreamOpen(r)
    \/ \E s \in StreamIds : StreamGet(s)
    \/ \E s \in StreamIds : StreamResume(s)
    \/ \E s \in StreamIds : StreamCancel(s)
    \/ \E s \in StreamIds : StreamFinalize(s)

Spec == Init /\ [][Next]_vars

\* the steps of the worker thread of run r
WorkerStep(r) ==
    \/ WorkerConstruct(r)
    \/ WorkerLog(r)
    \/ WorkerReturn(r)
    \/ WorkerRaise(r)
    \/ WorkerFinish(r)

\* the executor thread runs: a worker that can take a step takes one. No
\* fairness for the loop or the streams.
SpecWorker == Spec /\ \A r \in RunIds : WF_vars(WorkerStep(r))

\* the steps the event loop takes for run r on its own: sending the
\* response, starting the background task
LoopStep(r) ==
    \/ Respond(r)
    \/ Dispatch(r)

\* the steps of stream s: the next queue.get() and the consumer asking for
\* the next frame
StreamStep(s) ==
    \/ StreamGet(s)
    \/ StreamResume(s)

\* the event loop and the executor threads both run: a hand-off is put, a
\* response is sent, a background task is started, a worker goes on, and a
\* stream that can go on does
SpecFair ==
    /\ Spec
    /\ WF_vars(LoopPut)
    /\ \A r \in RunIds : WF_vars(LoopStep(r)) /\ WF_vars(WorkerStep(r))
    /\ \A s \in StreamIds : WF_vars(StreamStep(s))

\* ============================================================== call_llm
\* Strings the code normalises are sequences of characters.
Upper == <<"A", "B", "C", "D", "E", "F", "G", "H", "I", "J", "K", "L", "M",
           "N", "O", "P", "Q", "R", "S", "T", "U", "V", "W", "X", "Y", "Z">>
LowerOf == <<"a", "b", "c", "d", "e", "f", "g", "h", "i", "j", "k", "l", "m",
             "n", "o", "p", "q", "r", "s", "t", "u", "v", "w", "x", "y", "z">>
Whitespace == {" ", "\t", "\n"}

\* str.lower()
LowerChar(c) ==
    IF \E i \in DOMAIN Upper : Upper[i] = c
    THEN LowerOf[CHOOSE i \in DOMAIN Upper : Upper[i] = c]
    ELSE c
Lower(str) == [i \in 1..Len(str) |-> LowerChar(str[i])]

\* str.strip()
RECURSIVE LStrip(_)
LStrip(str) ==
    IF str # <<>> /\ Head(str) \in Whitespace THEN LStrip(Tail(str)) ELSE str
RECURSIVE RStrip(_)
RStrip(str) ==
    IF str # <<>> /\ str[Len(str)] \in Whitespace
    THEN RStrip(SubSeq(str, 1, Len(str) - 1))
    ELSE str
Strip(str) == RStrip(LStrip(str))

StrNone == <<"n", "o", "n", "e">>
StrBind == <<"b", "i", "n", "d">>
StrFunctionCalling == <<"f", "u", "n", "c", "t", "i", "o", "n", "_",
                        "c", "a", "l", "l", "i", "n", "g">>
StrJsonSchema == <<"j", "s", "o", "n", "_", "s", "c", "h", "e", "m", "a">>

\* an environment variable that is not set (no string of characters)
Unset == <<"(unset)">>

\* os.getenv(name, default)
GetEnv(value, default) == IF value = Unset THEN default ELSE value

\* the values DEXTER_LLM_STRUCTURED_OUTPUT_METHOD takes here
MethodValues ==
    { Unset, StrNone, StrFunctionCalling, StrJsonSchema, <<>>,
      <<" ", "N", "o", "n", "e", "\n">>,
      <<"J", "S", "O", "N", "_", "S", "C", "H", "E", "M", "A">>,
      <<"j", "s", "o", "n">>, <<"n", "o", "n", "e", "!">> }

\* the values DEXTER_LLM_TOOL_BIND takes here
ToolBindValues ==
    { Unset, StrBind, StrNone, <<>>, <<"B", "i", "n", "d", " ">>,
      <<"b", "i", "n", "d", "s">> }

\* mutant: a mode that is not recognised disables the binding
StructuredFallbackNone(raw) ==
    LET method == Lower(Strip(GetEnv(raw, StrFunctionCalling))) IN
    IF method \in {StrFunctionCalling, StrJsonSchema}
    THEN [kind |-> "structured", method |-> method]
    ELSE [kind |-> "plain"]

\* if output_schema: the runnable the structured-output mode selects
StructuredBinding(raw) ==
    LET method == Lower(Strip(GetEnv(raw, StrFunctionCalling))) IN
    IF method = StrNone THEN [kind |-> "plain"]
    ELSE IF method \in {StrFunctionCalling, StrJsonSchema}
    THEN [kind |-> "structured", method |-> method]
    ELSE [kind |-> "structured", method |-> StrFunctionCalling]

\* elif tools: the runnable the tool-binding mode selects
ToolBinding(raw) ==
    LET mode == Lower(Strip(GetEnv(raw, StrBind))) IN
    IF mode = StrBind THEN [kind |-> "tools"] ELSE [kind |-> "plain"]

\* mutant: the tools are looked at first (if tools, not elif tools)
RunnableToolsFirst(schema, tools, rawMethod, rawToolBind) ==
    IF tools THEN ToolBinding(rawToolBind)
    ELSE IF schema THEN StructuredBinding(rawMethod)
    ELSE [kind |-> "plain"]

\* runnable = llm, then the two branches
Runnable(schema, tools, rawMethod, rawToolBind) ==
    IF schema THEN StructuredBinding(rawMethod)
    ELSE IF tools THEN ToolBinding(rawToolBind)
    ELSE [kind |-> "plain"]

Attempts == 3           \* for attempt in range(3)
LastAttempt == 2        \* if attempt == 2
BackoffBaseMs == 500    \* 0.5 seconds
BackoffFactor == 2      \* 2 ** attempt

\* 0.5 * (2 ** attempt), in milliseconds
Backoff(attempt) == BackoffBaseMs * BackoffFactor ^ attempt

\* what chain.invoke does at one attempt
Outcomes == {"ok", "transient", "other"}

\* mutant: every failure of the provider is retried
IsAnyFailure(outcome) == outcome # "ok"

\* except APIConnectionError
IsTransient(outcome) == outcome = "transient"

\* mutant: the retry budget is one attempt longer
IsPastLastAttempt(attempt) == attempt = LastAttempt + 1

\* if attempt == 2: raise
IsLastAttempt(attempt) == attempt = LastAttempt

InitLLM ==
    /\ InitServer
    /\ enc = EncIdle
    /\ req = ReqIdle
    /\ \E schema \in BOOLEAN, tools \in BOOLEAN,
          rawMethod \in MethodValues, rawToolBind \in ToolBindValues :
        llm = [pc |-> "bind", schema |-> schema, tools |-> tools,
               rawMethod |-> rawMethod, rawToolBind |-> rawToolBind,
               runnable |-> [kind |-> "unbound"], attempt |-> 0,
               trace |-> <<>>, sleeps |-> <<>>, raisedAt |-> 0]

\* call_llm up to chain = prompt_template | runnable
LLMBind ==
    /\ llm.pc = "bind"
    /\ llm' = [llm EXCEPT !.pc = "invoke",
                          !.runnable = Runnable(llm.schema, llm.tools,
                                                llm.rawMethod, llm.rawToolBind)]
    /\ UNCHANGED <<nextRun, sessions, queue, finished, http, worker, ready,
                   streams, emitted, delivered, reaped, resp, enc, req>>

\* one pass of the loop body: chain.invoke returns, or raises; a transient
\* failure before the last attempt is followed by the sleep, any other
\* failure and the last transient one leave call_llm
LLMInvoke(outcome) ==
    /\ llm.pc = "invoke"
    /\ LET n == Len(llm.trace) + 1 IN
        llm' = [llm EXCEPT
                    !.trace = Append(@, outcome),
                    !.pc = IF outcome = "ok" THEN "returned"
                           ELSE IF ~IsTransient(outcome) THEN "raised"
                           ELSE IF IsLastAttempt(llm.attempt) THEN "raised"
                           ELSE "sleep",
                    !.raisedAt = IF outcome # "ok" /\
                                    (~IsTransient(outcome) \/ IsLastAttempt(llm.attempt))
                                 THEN n ELSE @]
    /\ UNCHANGED <<nextRun, sessions, queue, finished, http, worker, ready,
                   streams, emitted, delivered, reaped, resp, enc, req>>

\* time.sleep(0.5 * (2 ** attempt)), then the next attempt of range(3);
\* when the range is used up the function ends and returns None
LLMSleep ==
    /\ llm.pc = "sleep"
    /\ llm' = [llm EXCEPT
                    !.sleeps = Append(@, Backoff(llm.attempt)),
                    !.attempt = @ + 1,
                    !.pc = IF llm.attempt + 1 < Attempts THEN "invoke" ELSE "fellthrough"]
    /\ UNCHANGED <<nextRun, sessions, queue, finished, http, worker, ready,
                   streams, emitted, delivered, reaped, resp, enc, req>>

NextLLM ==
    \/ LLMBind
    \/ \E outcome \in Outcomes : LLMInvoke(outcome)
    \/ LLMSleep

SpecLLM == InitLLM /\ [][NextLLM]_vars

\* ========================================================== event encoder
MaxResultLen == 4       \* length of the result strings explored

\* the characters result strings are made of
Alphabet == {"n", "u", "l", "1", "\"", " ", "[", "]"}
ToolNames == {"search"}

RECURSIVE StringsUpTo(_)
StringsUpTo(n) ==
    IF n = 0 THEN {<<>>}
    ELSE LET shorter == StringsUpTo(n - 1) IN
         shorter \cup {Append(str, c) : str \in {x \in shorter : Len(x) = n - 1},
                                        c \in Alphabet}
ResultStrings == StringsUpTo(MaxResultLen)

\* Python values
PyNone == [t |-> "none"]
PyInt(n) == [t |-> "int", v |-> n]
PyStr(chars) == [t |-> "str", v |-> chars]
PyList(items) == [t |-> "list", v |-> items]

\* json.loads over the alphabet: null, integers, strings, arrays (of at most
\* one item, as there is no comma), with whitespace around every value
JsonWs == {" ", "\t", "\n", "\r"}
Digits == <<"0", "1", "2", "3", "4", "5", "6", "7", "8", "9">>
IsDigit(c) == \E i \in DOMAIN Digits : Digits[i] = c
DigitValue(c) == (CHOOSE i \in DOMAIN Digits : Digits[i] = c) - 1
ParseError == [ok |-> FALSE]

\* the first position from i on that holds no whitespace
RECURSIVE SkipWs(_, _)
SkipWs(str, i) ==
    IF i <= Len(str) /\ str[i] \in JsonWs THEN SkipWs(str, i + 1) ELSE i

\* the integer whose digits start at i, read so far as acc
RECURSIVE ScanInt(_, _, _)
ScanInt(str, i, acc) ==
    IF i <= Len(str) /\ IsDigit(str[i])
    THEN ScanInt(str, i + 1, 10 * acc + DigitValue(str[i]))
    ELSE [ok |-> TRUE, val |-> PyInt(acc), next |-> i]

\* the string whose characters start at i, up to the closing quote
RECURSIVE ScanString(_, _, _)
ScanString(str, i, acc) ==
    IF i > Len(str) THEN ParseError
    ELSE IF str[i] = "\"" THEN [ok |-> TRUE, val |-> PyStr(acc), next |-> i + 1]
    ELSE ScanString(str, i + 1, Append(acc, str[i]))

\* scan_once: the value that starts at position i
RECURSIVE ScanOnce(_, _)
ScanOnce(str, i) ==
    IF i > Len(str) THEN ParseError
    ELSE IF str[i] = "n" THEN
        IF i + 3 <= Len(str) /\ SubSeq(str, i, i + 3) = <<"n", "u", "l", "l">>
        THEN [ok |-> TRUE, val |-> PyNone, next |-> i + 4]
        ELSE ParseError
    ELSE IF str[i] = "\"" THEN ScanString(str, i + 1, <<>>)
    ELSE IF str[i] = "0" THEN [ok |-> TRUE, val |-> PyInt(0), next |-> i + 1]
    ELSE IF IsDigit(str[i]) THEN ScanInt(str, i, 0)
    ELSE IF str[i] = "[" THEN
        LET j == SkipWs(str, i + 1) IN
        IF j <= Len(str) /\ str[j] = "]"
        THEN [ok |-> TRUE, val |-> PyList(<<>>), next |-> j + 1]
        ELSE LET item == ScanOnce(str, j) IN
             IF ~item.ok THEN ParseError
             ELSE LET k == SkipWs(str, item.next) IN
                  IF k <= Len(str) /\ str[k] = "]"
                  THEN [ok |-> TRUE, val |-> PyList(<<item.val>>), next |-> k + 1]
                  ELSE ParseError
    ELSE ParseError

\* json.loads(result): the value, or a failure (extra data included)
JsonLoads(str) ==
    LET r == ScanOnce(str, SkipWs(str, 1)) IN
    IF r.ok /\ SkipWs(str, r.next) = Len(str) + 1
    THEN [ok |-> TRUE, val |-> r.val]
    ELSE ParseError

\* log_tool_run's payload
ToolRunPayload(tool, result) ==
    LET payload == [type |-> "tool_run", tool |-> tool] IN
    IF result # <<>>
    THEN LET loaded == JsonLoads(result)
             parsed == IF loaded.ok THEN loaded.val ELSE PyNone
         IN payload @@ [result |-> IF parsed # PyNone THEN parsed ELSE PyStr(result)]
    ELSE payload

\* ---- EventLogger.progress
MaxMsgLen == 5          \* length of the progress messages explored
MaxBodyEvents == 1      \* events the body of a progress scope emits

MsgAlphabet == {"a", "."}

RECURSIVE MessagesUpTo(_)
MessagesUpTo(n) ==
    IF n = 0 THEN {<<>>}
    ELSE LET shorter == MessagesUpTo(n - 1) IN
         shorter \cup {Append(str, c) : str \in {x \in shorter : Len(x) = n - 1},
                                        c \in MsgAlphabet}
Messages == MessagesUpTo(MaxMsgLen)
SuccessMessages == {<<>>, <<"o", "k">>, <<" ">>}
BodyFailures == {<<"n", "o">>, <<>>}

Ellipsis == <<".", ".", ".">>
\* " ✓": a space and the check mark, one character
CompletionMark == <<" ", "(check mark)">>
FailedInfix == <<" ", "f", "a", "i", "l", "e", "d", ":", " ">>

\* str.replace(old, new): every occurrence, left to right, not overlapping
RECURSIVE StrReplace(_, _, _)
StrReplace(str, old, new) ==
    IF Len(str) < Len(old) THEN str
    ELSE IF SubSeq(str, 1, Len(old)) = old
    THEN new \o StrReplace(SubSeq(str, Len(old) + 1, Len(str)), old, new)
    ELSE <<Head(str)>> \o StrReplace(Tail(str), old, new)

\* completed = success_message or message.replace("...", " ✓")
Completed(message, success) ==
    IF success # <<>> THEN success ELSE StrReplace(message, Ellipsis, CompletionMark)

ProgressPayload(status, message) ==
    [type |-> "progress", status |-> status, message |-> message]

\* an event the body of the scope emits through the same logger
BodyPayload == [type |-> "log", message |-> <<"a">>]

InitLog ==
    /\ InitServer
    /\ llm = LLMIdle
    /\ req = ReqIdle
    /\ \/ \E tool \in ToolNames, result \in ResultStrings :
            enc = [pc |-> "call", op |-> "log_tool_run", tool |-> tool,
                   result |-> result, events |-> <<>>]
       \/ \E message \in Messages, success \in SuccessMessages :
            enc = [pc |-> "call", op |-> "progress", message |-> message,
                   success |-> success, events |-> <<>>, exc |-> NoExc]

\* EventLogger.log_tool_run(tool, result)
LogToolRun ==
    /\ enc.pc = "call"
    /\ enc.op = "log_tool_run"
    /\ enc' = [enc EXCEPT !.pc = "done",
                          !.events = Append(@, ToolRunPayload(enc.tool, enc.result))]
    /\ UNCHANGED <<nextRun, sessions, queue, finished, http, worker, ready,
                   streams, emitted, delivered, reaped, resp, llm, req>>

\* with logger.progress(message, success_message): the start event
ProgressEnter ==
    /\ enc.pc = "call"
    /\ enc.op = "progress"
    /\ enc' = [enc EXCEPT !.pc = "body",
                          !.events = Append(@, ProgressPayload("start", enc.message))]
    /\ UNCHANGED <<nextRun, sessions, queue, finished, http, worker, ready,
                   streams, emitted, delivered, reaped, resp, llm, req>>

\* the body of the with statement emits an event of its own
ProgressBodyEmit ==
    /\ enc.pc = "body"
    /\ Len(enc.events) < 1 + MaxBodyEvents
    /\ enc' = [enc EXCEPT !.events = Append(@, BodyPayload)]
    /\ UNCHANGED <<nextRun, sessions, queue, finished, http, worker, ready,
                   streams, emitted, delivered, reaped, resp, llm, req>>

\* the body ends normally: the complete event
ProgressExit ==
    /\ enc.pc = "body"
    /\ enc' = [enc EXCEPT
                !.pc = "done",
                !.events = Append(@, ProgressPayload("complete",
                                        Completed(enc.message, enc.success)))]
    /\ UNCHANGED <<nextRun, sessions, queue, finished, http, worker, ready,
                   streams, emitted, delivered, reaped, resp, llm, req>>

\* mutant: the failure is reported and not raised again
ProgressFailSwallowed(text) ==
    /\ enc.pc = "body"
    /\ enc' = [enc EXCEPT
                !.pc = "done",
                !.events = Append(@, ProgressPayload("error",
                                        enc.message \o FailedInfix \o text))]
    /\ UNCHANGED <<nextRun, sessions, queue, finished, http, worker, ready,
                   streams, emitted, delivered, reaped, resp, llm, req>>

\* the body raises an exception with str(exc) = text: the error event,
\* then raise
ProgressFail(text) ==
    /\ enc.pc = "body"
    /\ enc' = [enc EXCEPT
                !.pc = "raised",
                !.exc = text,
                !.events = Append(@, ProgressPayload("error",
                                        enc.message \o FailedInfix \o text))]
    /\ UNCHANGED <<nextRun, sessions, queue, finished, http, worker, ready,
                   streams, emitted, delivered, reaped, resp, llm, req>>

NextLog ==
    \/ LogToolRun
    \/ ProgressEnter
    \/ ProgressBodyEmit
    \/ ProgressExit
    \/ \E text \in BodyFailures : ProgressFail(text)

SpecLog == InitLog /\ [][NextLog]_vars

\* ------------------------------------------- RunRequest and the Agent limits
MaxLimit == 21          \* step limits a request carries: -MaxLimit..MaxLimit

DefaultMaxSteps == 20           \* request.max_steps or 20
DefaultMaxStepsPerTask == 5     \* request.max_steps_per_task or 5

\* RunRequest.max_steps, max_steps_per_task: Optional[int] = None
StepLimits == {PyNone} \cup {PyInt(n) : n \in -MaxLimit..MaxLimit}

\* bool(x) of None and of an int
Truthy(x) == x # PyNone /\ x # PyInt(0)

\* x or default
OrElse(x, default) == IF Truthy(x) THEN x ELSE default

InitReq ==
    /\ InitServer
    /\ llm = LLMIdle
    /\ enc = EncIdle
    /\ \E a \in StepLimits, b \in StepLimits :
        req = [pc |-> "worker", max_steps |-> a, max_steps_per_task |-> b]

\* worker: agent = Agent(max_steps=..., max_steps_per_task=..., logger=...)
ConstructAgent ==
    /\ req.pc = "worker"
    /\ req' = [pc |-> "constructed",
               max_steps |-> req.max_steps,
               max_steps_per_task |-> req.max_steps_per_task,
               agent |-> [max_steps |->
                              OrElse(req.max_steps, PyInt(DefaultMaxSteps)),
                          max_steps_per_task |->
                              OrElse(req.max_steps_per_task,
                                     PyInt(DefaultMaxStepsPerTask))]]
    /\ UNCHANGED <<nextRun, sessions, queue, finished, http, worker, ready,
                   streams, emitted, delivered, reaped, resp, llm, enc>>

NextReq ==
    \/ ConstructAgent

SpecReq == InitReq /\ [][NextReq]_vars

\* ================================================================== claims
IsPrefix(a, b) == Len(a) <= Len(b) /\ SubSeq(b, 1, Len(a)) = a

RECURSIVE IsSubSeq(_, _)
IsSubSeq(a, b) ==
    IF a = <<>> THEN TRUE
    ELSE IF b = <<>> THEN FALSE
    ELSE IF Head(a) = Head(b) THEN IsSubSeq(Tail(a), Tail(b))
    ELSE IsSubSeq(a, Tail(b))

Frames(payloads) == [i \in 1..Len(payloads) |-> Frame(payloads[i])]
FrameIsTerminal(frame) == frame.data[1][2] \in {"done", "error"}
TerminalFrames(out) == {i \in 1..Len(out) : FrameIsTerminal(out[i])}
TerminalPayloads(e) == {i \in 1..Len(e) : IsTerminal(e[i])}
StreamsOf(r) == {s \in DOMAIN streams : streams[s].run = r}
Ended(s) == streams[s].pc \in {"done", "cancelled", "abandoned"}

C3_EndedStreamIsReaped ==
    \A s \in DOMAIN streams : Ended(s) => streams[s].run \notin sessions

\* C4: a worker whose executor failed, in its construction or in its run,
\* has emitted exactly one terminal event, the error event carrying the
\* failure text, as its last event, and goes on to its finally block (the
\* failure is caught); a worker whose executor returned has emitted exactly
\* one terminal event, the done event carrying the answer; before that no
\* terminal event is emitted. No step of a worker changes the registry,
\* a stream, or the session, events or worker of another run.
C4_WorkerInv ==
    \A r \in RunIds :
        LET e == emitted[r]
            w == worker[r]
        IN /\ w.pc \in {"finally", "exited"} =>
                /\ TerminalPayloads(e) = {Len(e)}
                /\ w.exc # NoExc => e[Len(e)] = ErrorPayload(w.exc)
                /\ w.exc = NoExc => e[Len(e)] = DonePayload(w.answer)
           /\ w.pc \notin {"finally", "exited"} =>
                /\ TerminalPayloads(e) = {}
                /\ w.exc = NoExc

HandedOff(rdy, r) == SelectSeq(rdy, LAMBDA h : h.run = r)

C4_WorkerStepIsolated ==
    \A r \in RunIds :
        (worker[r].pc \in {"construct", "run", "finally"} /\ worker'[r] # worker[r])
        => /\ sessions' = sessions
           /\ streams' = streams
           /\ \A q \in RunIds \ {r} :
                /\ queue'[q] = queue[q]
                /\ finished'[q] = finished[q]
                /\ worker'[q] = worker[q]
                /\ emitted'[q] = emitted[q]
                /\ HandedOff(ready', q) = HandedOff(ready, q)

C4_FailureContained == [] C4_WorkerInv /\ [][C4_WorkerStepIsolated]_vars

\* one run's executor failed in its run and its worker exited, while the
\* worker of another run is still running and its stream is open
C4_Witness ==
    \E r, q \in RunIds : \E s \in DOMAIN streams :
        /\ r # q
        /\ worker[r].pc = "exited"
        /\ worker[r].exc = RunFailure
        /\ worker[q].pc = "run"
        /\ streams[s].run = q
        /\ streams[s].pc = "get"

\* C5: GET .../events answers 404 exactly when the run id is not in the
\* registry, and then changes nothing of the registry, the sessions, the
\* workers or the streams; a run id that was reaped is never in the registry
\* again.
C5_GetStep ==
    resp' # resp =>
        /\ (resp'.status = 404) <=> (resp'.run \notin sessions)
        /\ resp'.status = 404 =>
            UNCHANGED <<nextRun, sessions, queue, finished, http, worker, ready,
                        streams, emitted, delivered, reaped>>

C5_NotFoundAndSingleUse ==
    /\ [] (reaped \cap sessions = {})
    /\ [][reaped \subseteq reaped']_vars
    /\ [][C5_GetStep]_vars

\* a reaped run id was asked for and answered 404; so was one never issued
C5_Witness ==
    /\ resp.status = 404
    /\ resp.run \in reaped
    /\ nextRun < MaxRuns

\* C6: the worker of a run does not start before the run's response is
\* sent (so the response waits for no step of the executor: it can be
\* sent as soon as the handler has returned), and when a worker emits its
\* first event its session is in the registry.
C6_WorkerAfterResponse ==
    \A r \in RunIds :
        /\ worker[r].pc \notin {"none", "queued"} => http[r] = "sent"
        /\ http[r] = "returned" => ENABLED Respond(r)

C6_FirstEmitRegistered ==
    \A r \in RunIds : (emitted[r] = <<>> /\ emitted'[r] # <<>>) => r \in sessions

C6_ResponseBeforeWorker ==
    [] C6_WorkerAfterResponse /\ [][C6_FirstEmitRegistered]_vars

\* the response of a run is sent and its executor is still running
C6_Witness ==
    \E r \in RunIds :
        /\ http[r] = "sent"
        /\ worker[r].pc = "run"
        /\ emitted[r] # <<>>
        /\ r \in sessions

\* C7: when call_llm has raised a transient-connection failure it has made
\* exactly 3 attempts, all of them transient failures, has slept 0.5 s after
\* the first and 1.0 s after the second and not after the third, and
\* the failure raised is the third one; when it has returned after k
\* transient failures, k < 3, it has made exactly k+1 attempts, the last one
\* the success, with the first k of those delays; in both cases no further
\* attempt is made.
C7_RetryBudget ==
    LET trace == llm.trace
        n == Len(trace)
        delays == <<500, 1000>>
    IN /\ (llm.pc = "raised" /\ trace[n] = "transient") =>
            /\ trace = <<"transient", "transient", "transient">>
            /\ llm.sleeps = delays
            /\ llm.raisedAt = 3
       /\ llm.pc = "returned" =>
            /\ n - 1 < 3
            /\ \A i \in 1..(n - 1) : trace[i] = "transient"
            /\ trace[n] = "ok"
            /\ llm.sleeps = SubSeq(delays, 1, n - 1)
       /\ llm.pc \in {"returned", "raised"} => ~ ENABLED NextLLM
       /\ llm.pc # "fellthrough"

\* three transient failures in a row: the third one is raised
C7_Witness ==
    /\ llm.pc = "raised"
    /\ llm.trace = <<"transient", "transient", "transient">>

\* C8: a failure of the provider that is not a transient-connection error
\* is the last attempt call_llm makes: it is raised at the attempt where
\* it occurs, first or retry, with no sleep after it.
C8_NonTransientPropagates ==
    llm.pc \notin {"idle", "bind"} =>
        \A i \in DOMAIN llm.trace :
            llm.trace[i] = "other" =>
                /\ i = Len(llm.trace)
                /\ llm.pc = "raised"
                /\ llm.raisedAt = i
                /\ Len(llm.sleeps) = i - 1
                /\ ~ ENABLED NextLLM

\* a non-transient failure on the retry after a transient one
C8_Witness ==
    /\ llm.pc = "raised"
    /\ llm.trace = <<"transient", "other">>
    /\ llm.sleeps = <<500>>

\* C9: with an output schema, the mode none calls without schema binding,
\* json_schema binds with json_schema, function_calling and an unset mode
\* bind with function_calling, and a value that is none of the three (a
\* value is read with surrounding whitespace removed and in lower case)
\* binds with function_calling; call_llm goes on to the call in every case.
C9_StructuredMode ==
    (llm.pc \notin {"idle", "bind"} /\ llm.schema) =>
        LET raw == llm.rawMethod
            plain == [kind |-> "plain"]
            fc == [kind |-> "structured", method |-> StrFunctionCalling]
            js == [kind |-> "structured", method |-> StrJsonSchema]
        IN /\ raw = StrNone => llm.runnable = plain
           /\ raw = StrJsonSchema => llm.runnable = js
           /\ raw \in {StrFunctionCalling, Unset} => llm.runnable = fc
           /\ (raw # Unset /\ Lower(Strip(raw)) \notin
                    {StrNone, StrJsonSchema, StrFunctionCalling})
                => llm.runnable = fc
           /\ llm.trace = <<>> => llm.pc = "invoke"

\* a schema and a mode value that is none of the three
C9_Witness ==
    /\ llm.pc = "invoke"
    /\ llm.schema
    /\ llm.rawMethod = <<"j", "s", "o", "n">>
    /\ llm.runnable = [kind |-> "structured", method |-> StrFunctionCalling]

\* C10: log_tool_run emits exactly one tool_run event for the tool; it has
\* no result field when result is empty, the decoded value when result
\* decodes (the null value included), the raw string when it does not.
C10_ToolRunResult ==
    (enc.pc = "done" /\ enc.op = "log_tool_run") =>
        /\ Len(enc.events) = 1
        /\ LET event == enc.events[1]
               loaded == JsonLoads(enc.result)
           IN /\ event.type = "tool_run"
              /\ event.tool = enc.tool
              /\ enc.result = <<>> => "result" \notin DOMAIN event
              /\ enc.result # <<>> =>
                    /\ "result" \in DOMAIN event
                    /\ loaded.ok => event.result = loaded.val
                    /\ ~loaded.ok => event.result = PyStr(enc.result)

\* the progress events among the events of the scope, by status
ProgressEvents(events, statuses) ==
    {i \in 1..Len(events) :
        events[i].type = "progress" /\ events[i].status \in statuses}

\* C11: a progress scope emits the start event with its message first;
\* while the body runs there is no closing event; when the scope is left
\* there is exactly one closing event and it is the last event: complete
\* when the body ended normally, and otherwise error with the message
\* "<message> failed: <failure text>", no complete event, and the failure of
\* the body raised to the caller.
C11_ProgressScope ==
    (enc.pc \in {"body", "done", "raised"} /\ enc.op = "progress") =>
        LET ev == enc.events
            n == Len(ev)
        IN /\ ProgressEvents(ev, {"start"}) = {1}
           /\ ev[1].message = enc.message
           /\ enc.pc = "body" => ProgressEvents(ev, {"complete", "error"}) = {}
           /\ enc.pc = "done" =>
                /\ ProgressEvents(ev, {"complete"}) = {n}
                /\ ProgressEvents(ev, {"error"}) = {}
                /\ enc.exc = NoExc
           /\ enc.pc = "raised" =>
                /\ ProgressEvents(ev, {"error"}) = {n}
                /\ ProgressEvents(ev, {"complete"}) = {}
                /\ enc.exc \in BodyFailures
                /\ ev[n].message = enc.message \o FailedInfix \o enc.exc

\* the body emitted an event and raised: start, the event, error
C11_Witness ==
    /\ enc.pc = "raised"
    /\ enc.op = "progress"
    /\ Len(enc.events) = 3
    /\ enc.message = <<"a", ".", ".", ".">>
    /\ enc.exc = <<"n", "o">>

EndsWithEllipsis(message) ==
    /\ Len(message) >= 3
    /\ SubSeq(message, Len(message) - 2, Len(message)) = Ellipsis

\* C12: the message of the complete event is success_message when that is
\* not empty; otherwise message with its trailing ellipsis replaced by the
\* completion mark, and message unchanged when it does not end with an
\* ellipsis (an ellipsis elsewhere in message stays).
C12_CompleteMessage ==
    (enc.pc = "done" /\ enc.op = "progress") =>
        LET got == enc.events[Len(enc.events)].message
            m == enc.message
        IN IF enc.success # <<>> THEN got = enc.success
           ELSE IF EndsWithEllipsis(m)
           THEN got = SubSeq(m, 1, Len(m) - 3) \o CompletionMark
           ELSE got = m

\* C18: tools are bound only when no output schema is given: with tools and
\* no schema the mode bind, also when unset, attaches the tools and the mode
\* none leaves the call untouched (a value is read with surrounding
\* whitespace removed and in lower case); with a schema the tools are never
\* bound, whatever the structured-output mode, none included; with neither
\* the call is untouched.
C18_ToolBinding ==
    (llm.pc \notin {"idle", "bind"}) =>
        LET raw == llm.rawToolBind
            plain == [kind |-> "plain"]
            bound == [kind |-> "tools"]
        IN /\ llm.schema => llm.runnable # bound
           /\ (llm.schema /\ llm.rawMethod = StrNone) => llm.runnable = plain
           /\ (~llm.schema /\ llm.tools) =>
                /\ raw \in {StrBind, Unset} => llm.runnable = bound
                /\ raw = StrNone => llm.runnable = plain
                /\ (raw # Unset /\ Lower(Strip(raw)) = StrBind)
                        => llm.runnable = bound
                /\ llm.runnable \in {bound, plain}
           /\ (~llm.schema /\ ~llm.tools) => llm.runnable = plain

\* tools and a schema under the structured-output mode none: not bound
C18_Witness ==
    /\ llm.pc = "invoke"
    /\ llm.schema
    /\ llm.tools
    /\ llm.rawMethod = StrNone
    /\ llm.rawToolBind = StrBind
    /\ llm.runnable = [kind |-> "plain"]

\* C19: the Agent is constructed with the request's max_steps and
\* max_steps_per_task for every integer the request carries, 0 included, and
\* with 20 and 5 only when the field is absent.
C19_LimitsPassedThrough ==
    req.pc = "constructed" =>
        /\ req.agent.max_steps =
             IF req.max_steps = PyNone THEN PyInt(20) ELSE req.max_steps
        /\ req.agent.max_steps_per_task =
             IF req.max_steps_per_task = PyNone THEN PyInt(5)
             ELSE req.max_steps_per_task

\* a step taken on the worker thread of run r
WorkerThreadStep(r) ==
    /\ worker[r].pc \in {"construct", "run", "finally"}
    /\ worker'[r] # worker[r]

\* C13: a step of the worker thread changes neither a session's queue, nor
\* a session's finished flag, nor the registry: what the worker causes there
\* is done by a step of the event loop after a hand-off.
C13_WorkerLeavesSchedulerState ==
    [][\A r \in RunIds :
        WorkerThreadStep(r) =>
            /\ queue' = queue
            /\ finished' = finished
            /\ sessions' = sessions]_vars

\* a stream on run r has yielded a terminal frame
TerminalYielded(r) ==
    \E s \in StreamsOf(r) : TerminalFrames(streams[s].out) # {}

\* C14: a step that removes a run id from the registry is a step of a stream
\* on that run, taken when a stream on it has yielded the terminal event and
\* every event emitted before it has been delivered (the worker's leaving
\* does not remove it), and it removes an id that was never removed before;
\* a removed id stays out of the registry.
C14_RemovalStep ==
    \A r \in RunIds :
        (r \in sessions /\ r \notin sessions') =>
            /\ TerminalYielded(r)
            /\ \E k \in 1..Len(emitted[r]) :
                /\ IsTerminal(emitted[r][k])
                /\ SubSeq(emitted[r], 1, k) = SubSeq(delivered[r], 1, k)
            /\ \E s \in StreamsOf(r) : streams'[s] # streams[s]
            /\ worker' = worker
            /\ r \notin reaped
            /\ r \in reaped'

C14_RemovedInv ==
    \A r \in reaped :
        /\ r \notin sessions
        /\ TerminalYielded(r)

C14_RemovedAfterTerminalOnce == [] C14_RemovedInv /\ [][C14_RemovalStep]_vars

\* the run was removed by its stream while its worker had not yet left, and
\* a log event came before the terminal one
C14_Witness ==
    \E r \in reaped :
        /\ worker[r].pc = "finally"
        /\ Len(delivered[r]) = 2
        /\ r \notin sessions

\* C17: a worker that has left has set the flag of its run, and had handed
\* its terminal event to emit before; setting the flag is the worker's last
\* step, after success and after failure; a stream that has ended, after the
\* terminal event or by cancellation, has set the flag of its run; a flag
\* that is set stays set.
C17_FinishedInv ==
    /\ \A r \in RunIds :
        /\ worker[r].pc = "exited" => finished[r]
        /\ worker[r].pc \in {"finally", "exited"} =>
                /\ emitted[r] # <<>>
                /\ IsTerminal(emitted[r][Len(emitted[r])])
                /\ (worker[r].exc = NoExc) =
                        IsDone(emitted[r][Len(emitted[r])])
    /\ \A s \in DOMAIN streams :
        streams[s].pc \in {"done", "cancelled"} => finished[streams[s].run]

C17_FinishedStep ==
    \A r \in RunIds :
        /\ finished[r] => finished'[r]
        /\ (worker[r].pc # "exited" /\ worker'[r].pc = "exited") =>
                /\ worker[r].pc = "finally"
                /\ finished'[r]
        /\ worker[r].pc = "exited" => worker'[r] = worker[r]

C17_FinishedSetAndKept == [] C17_FinishedInv /\ [][C17_FinishedStep]_vars

\* the worker failed and set the flag while no stream was ever opened
C17_Witness ==
    \E r \in RunIds :
        /\ worker[r].pc = "exited"
        /\ worker[r].exc = RunFailure
        /\ finished[r]
        /\ streams = <<>>

\* the number of frames the first n streams have yielded for run r
RECURSIVE YieldedCount(_, _)
YieldedCount(r, n) ==
    IF n = 0 THEN 0
    ELSE YieldedCount(r, n - 1)
         + (IF streams[n].run = r THEN Len(streams[n].out) ELSE 0)

\* the number of payloads of run r handed to the loop and not yet put
RECURSIVE PendingCount(_, _)
PendingCount(r, n) ==
    IF n = 0 THEN 0
    ELSE PendingCount(r, n - 1) + (IF ready[n].run = r THEN 1 ELSE 0)

FramesOf(s) == {streams[s].out[i] : i \in 1..Len(streams[s].out)}

\* C20: of the payloads emitted for a run, each one is in exactly one place:
\* waiting for the loop, in the run's queue, or yielded by exactly one stream
\* of that run, once; a stream yields only payloads of its own run, in the
\* order of emission; so two streams on one run share the run's events out
\* between them.
C20_EachPayloadYieldedOnce ==
    \A r \in RunIds :
        /\ YieldedCount(r, Len(streams)) + Len(queue[r])
                + PendingCount(r, Len(ready)) = Len(emitted[r])
        /\ \A s \in StreamsOf(r) :
            /\ IsSubSeq(streams[s].out, Frames(emitted[r]))
            /\ Cardinality(FramesOf(s)) = Len(streams[s].out)
            /\ \A t \in StreamsOf(r) \ {s} : FramesOf(s) \cap FramesOf(t) = {}

\* two streams on one run: the first yielded the log event alone, the second
\* the terminal event alone; neither has the full sequence
C20_Witness ==
    /\ Len(streams) = 2
    /\ streams[1].run = streams[2].run
    /\ Len(streams[1].out) = 1
    /\ Len(streams[2].out) = 1
    /\ TerminalFrames(streams[1].out) = {}
    /\ TerminalFrames(streams[2].out) # {}
    /\ streams[1].pc = "get"
    /\ streams[2].pc = "done"
    /\ Len(emitted[streams[1].run]) = 2

WorkerRunning(r) == worker[r].pc \in {"construct", "run", "finally"}

\* C15: a running worker can always take its next step, whatever the streams
\* and the queue are (an emit neither blocks nor raises); a step of a stream,
\* the disconnect included, leaves every worker as it is; and with the
\* worker thread alone scheduled fairly a worker that has started leaves,
\* its terminal event emitted and nothing of what it emitted lost.
C15_WorkerInv ==
    \A r \in RunIds :
        /\ WorkerRunning(r) => ENABLED WorkerStep(r)
        /\ worker[r].pc = "exited" =>
            /\ TerminalPayloads(emitted[r]) = {Len(emitted[r])}
            /\ YieldedCount(r, Len(streams)) + Len(queue[r])
                    + PendingCount(r, Len(ready)) = Len(emitted[r])

C15_StreamStep == streams' # streams => worker' = worker

C15_WorkerOutlivesClient ==
    /\ [] C15_WorkerInv
    /\ [][C15_StreamStep]_vars
    /\ \A r \in RunIds : WorkerRunning(r) ~> worker[r].pc = "exited"

\* the only stream of the run was cancelled before it yielded anything; the
\* worker has left, and its two events sit in the queue with no consumer
C15_Witness ==
    \E r \in sessions :
        /\ StreamsOf(r) = {1}
        /\ streams[1].pc = "cancelled"
        /\ streams[1].out = <<>>
        /\ worker[r].pc = "exited"
        /\ Len(emitted[r]) = 2
        /\ queue[r] = emitted[r]

\* stream s is the only stream ever opened on run r and its client does not
\* disconnect
SingleClientStays(r, s) ==
    /\ [] (StreamsOf(r) \subseteq {s})
    /\ [] (s \in DOMAIN streams => streams[s].pc \notin {"cancelled", "abandoned"})

StreamOpenOn(r, s) == s \in DOMAIN streams /\ streams[s].run = r

StreamClosedAfterTerminal(r, s) ==
    /\ StreamOpenOn(r, s)
    /\ streams[s].pc = "done"
    /\ TerminalFrames(streams[s].out) = {Len(streams[s].out)}
    /\ Frames(emitted[r]) = streams[s].out
    /\ r \notin sessions

\* C16: with the event loop and the worker scheduled fairly, when one client
\* opens the stream of a run and stays connected, and no other stream is
\* opened on the run (the executor returns or fails in every case), then
\* eventually the terminal event has been delivered to it, the stream is
\* closed and the run id is out of the registry, for good.
C16_SingleClientDrains ==
    \A r \in RunIds, s \in StreamIds :
        SingleClientStays(r, s) =>
            (StreamOpenOn(r, s) ~> [] StreamClosedAfterTerminal(r, s))

\* the single stream of a failed run is closed, the error event delivered
C16_Witness ==
    \E r \in RunIds :
        /\ StreamsOf(r) = {1}
        /\ StreamClosedAfterTerminal(r, 1)
        /\ worker[r].exc = RunFailure
        /\ Len(streams[1].out) = 2

====
